---- MODULE Spec2Model ----
(***************************************************************************)
(* A model of live.py, the COVID-19 watcher: the poll loop                 *)
(* (fetch -> diff -> format -> send -> persist -> sleep), the state file,  *)
(* get_state_changes, format_slack_message and send_slack_message.         *)
(*                                                                         *)
(* Python dicts are functions from keys to values (records whose domain    *)
(* may differ: an optional key is a key that is or is not in DOMAIN), the  *)
(* empty dict {} is the function with the empty domain, lists are          *)
(* sequences.  Two names bound to one Python list (aliasing) are modelled  *)
(* by updating every name that is bound to the list.                       *)
(***************************************************************************)
EXTENDS Integers, Sequences, FiniteSets, TLC

\* ------------------------------------------------------------------ bounds
\* Entity counts of the diff inputs range over 0..MaxCount.
MaxCount == 1
\* Longest entity list of a diff input.
MaxEntities == 2
\* Poll-loop cycles explored (the loop itself is endless).
MaxCycles == 2
\* Longest block list handed to send_slack_message in SpecSend.
MaxBlocks == 120
\* Municipalities that appear at once in the large snapshot of the loop.
ManyMunicipalities == 24

\* ------------------------------------------------------- program constants
\* Slack's limit of blocks per message (live.py:202, 207).
BLOCK_LIMIT == 50
\* The status http.request returns on success (live.py:221).
HTTP_OK == 200
\* A status the sink returns on failure.
HTTP_ERROR == 500

Metrics == <<"confirmed", "dead", "recovered">>
UNKNOWN == "Ukjent"

\* ------------------------------------------------------------ Python dicts
HasKey(d, k) == k \in DOMAIN d
Put(d, k, v) == [x \in DOMAIN d \cup {k} |-> IF x = k THEN v ELSE d[x]]
Drop(d, k) == [x \in DOMAIN d \ {k} |-> d[x]]
EmptyDict == <<>>
\* Python's truth value of a dict: `not data` holds of the empty dict only.
Falsy(d) == DOMAIN d = {}

\* A Python optional (None or a value) as a sequence of length 0 or 1.
None == <<>>
Some(v) == <<v>>

\* ----------------------------------------------------------- the state file
\* STATE_FILE on disk: no file, a complete pickle, or a file whose pickle was
\* cut short (open(.., "wb") truncates before pickle.dump writes).
NoFile == [file |-> "absent"]
Truncated == [file |-> "truncated"]
Pickled(last_updated, snapshot) ==
    [file |-> "ok", last_updated |-> last_updated, data |-> snapshot]

\* get_state: the unpickled record, or an exception when there is no
\* readable pickle.
CanLoad(f) == f.file = "ok"
get_state(f) == [last_updated |-> f.last_updated, data |-> f.data]

\* set_state(data) at time now, when the write completes.
set_state(snapshot, now) == Pickled(now, snapshot)

\* ------------------------------------------------------------ the diff
Totals(c, d, r) == [confirmed |-> c, dead |-> d, recovered |-> r]

\* next((m for m in data["cases"] if ...), None): the first match.
RECURSIVE FirstWhere(_, _, _, _)
FirstWhere(cases, i, name, code) ==
    IF i > Len(cases) THEN None
    ELSE IF (IF name = UNKNOWN
             THEN cases[i].name = UNKNOWN
             ELSE cases[i].name # UNKNOWN
                  /\ cases[i].municipalityCode = code)
         THEN Some(cases[i])
         ELSE FirstWhere(cases, i + 1, name, code)

\* A matching by code alone, which lets the unknown bucket match by code.
StoredMunicipalityByCodeOnly(municipality, cases) ==
    LET hits == {i \in 1..Len(cases) :
                    /\ HasKey(cases[i], "municipalityCode")
                    /\ HasKey(municipality, "municipalityCode")
                    /\ cases[i].municipalityCode = municipality.municipalityCode}
    IN IF hits = {} THEN None
       ELSE Some(cases[CHOOSE i \in hits : \A j \in hits : i <= j])

\* live.py:85-98.  The code of an unknown-bucket entity is never read.
StoredMunicipality(municipality, cases) ==
    FirstWhere(cases, 1, municipality.name,
               IF municipality.name = UNKNOWN THEN ""
               ELSE municipality.municipalityCode)

\* The loop's locals that outlive an iteration: the cases appended so far,
\* the current snapshot's cases (the loop writes "changes" into them), the
\* local confirmed_per_1k_capita_diff (None while unbound), and whether
\* the iteration raised.
DiffStart(result) ==
    [cases |-> <<>>, result_cases |-> result.cases, capita |-> None,
     raised |-> FALSE]

\* An iteration that decides on the three counts alone whether a
\* municipality is unchanged, the per-capita delta left aside.
MunicipalityStepByCounts(acc, i, stored) ==
    LET municipality == acc.result_cases[i]
        is_new == stored = None
        capita == IF is_new THEN acc.capita
                  ELSE Some(municipality.confirmedPer1kCapita
                            - stored[1].confirmedPer1kCapita)
        confirmed_diff == IF is_new THEN municipality.confirmed
                          ELSE municipality.confirmed - stored[1].confirmed
        dead_diff == IF is_new THEN municipality.dead
                     ELSE municipality.dead - stored[1].dead
        recovered_diff == IF is_new THEN municipality.recovered
                          ELSE municipality.recovered - stored[1].recovered
        municipality_changes ==
            [is_new |-> is_new, confirmedPer1kCapita |-> capita[1],
             confirmed |-> confirmed_diff, dead |-> dead_diff,
             recovered |-> recovered_diff]
        changed == Put(municipality, "changes", municipality_changes)
    IN IF acc.raised THEN acc
       ELSE IF capita = None THEN [acc EXCEPT !.raised = TRUE]
       ELSE IF confirmed_diff = 0 /\ dead_diff = 0 /\ recovered_diff = 0
       THEN [acc EXCEPT !.capita = capita]
       ELSE [acc EXCEPT !.capita = capita,
                        !.cases = Append(@, changed),
                        !.result_cases[i] = changed]

\* One iteration of the loop over result["cases"] once the counterpart is
\* looked up, live.py:100-135.
MunicipalityStepWith(acc, i, stored) ==
    LET municipality == acc.result_cases[i]
        is_new == stored = None
        \* live.py:109: assigned only when a counterpart was found; a new
        \* municipality leaves the local as the previous iteration left it.
        capita == IF is_new THEN acc.capita
                  ELSE Some(municipality.confirmedPer1kCapita
                            - stored[1].confirmedPer1kCapita)
        confirmed_diff == IF is_new THEN municipality.confirmed
                          ELSE municipality.confirmed - stored[1].confirmed
        dead_diff == IF is_new THEN municipality.dead
                     ELSE municipality.dead - stored[1].dead
        recovered_diff == IF is_new THEN municipality.recovered
                          ELSE municipality.recovered - stored[1].recovered
        municipality_changes ==
            [is_new |-> is_new, confirmedPer1kCapita |-> capita[1],
             confirmed |-> confirmed_diff, dead |-> dead_diff,
             recovered |-> recovered_diff]
        changed == Put(municipality, "changes", municipality_changes)
    IN IF acc.raised THEN acc
       \* live.py:122 reads the local first: UnboundLocalError when unbound.
       ELSE IF capita = None THEN [acc EXCEPT !.raised = TRUE]
       ELSE IF capita[1] = 0 /\ confirmed_diff = 0 /\ dead_diff = 0
               /\ recovered_diff = 0
       THEN [acc EXCEPT !.capita = capita]
       ELSE [acc EXCEPT !.capita = capita,
                        !.cases = Append(@, changed),
                        !.result_cases[i] = changed]

\* One iteration of the loop over result["cases"], live.py:84-135.  (Here
\* and in DiffLoop a result is bound as a value before it is used, so that
\* it is computed once.)
MunicipalityStep(acc, i, data) ==
    CHOOSE out \in {MunicipalityStepWith(acc, i, stored) :
                       stored \in {StoredMunicipality(acc.result_cases[i],
                                                      data.cases)}} : TRUE

\* A loop that visits the entities from the last to the first.
RECURSIVE DiffLoopLastFirst(_, _, _)
DiffLoopLastFirst(acc, i, data) ==
    IF i > Len(acc.result_cases) THEN acc
    ELSE CHOOSE out \in {MunicipalityStep(later, i, data) :
                            later \in {DiffLoopLastFirst(acc, i + 1, data)}} :
            TRUE

\* The for loop of live.py:84 from entity i on.
RECURSIVE DiffLoop(_, _, _)
DiffLoop(acc, i, data) ==
    IF i > Len(acc.result_cases) THEN acc
    ELSE CHOOSE out \in {DiffLoop(next, i + 1, data) :
                            next \in {MunicipalityStep(acc, i, data)}} : TRUE

\* live.py:63-67.
SameTotals(data, result) ==
    /\ data.totals.confirmed = result.totals.confirmed
    /\ data.totals.dead = result.totals.dead
    /\ data.totals.recovered = result.totals.recovered

\* A sparse record of the total deltas: nonzero entries only.
TotalChangesSparse(data, result) ==
    LET dense == [k \in {"confirmed", "dead", "recovered"} |->
                     result.totals[k] - data.totals[k]]
    IN [k \in {x \in DOMAIN dense : dense[x] # 0} |-> dense[k]]

\* live.py:76-80: one entry per metric, zero or not.
TotalChanges(data, result) ==
    [confirmed |-> result.totals.confirmed - data.totals.confirmed,
     dead |-> result.totals.dead - data.totals.dead,
     recovered |-> result.totals.recovered - data.totals.recovered]

\* The early returns of get_state_changes, live.py:59-69.
NoChanges(state, result) ==
    Falsy(state.data) \/ SameTotals(state.data, result)

\* get_state_changes(result) against the loaded state, live.py:56-137.
\* kind: "none" (returned None), "changes" (returned the change set) or
\* "raise"; result: the caller's snapshot as the call leaves it (line 82
\* writes "changes" into result["totals"], line 134 into the entities).
get_state_changes(state, result) ==
    IF NoChanges(state, result)
    THEN [kind |-> "none", changes |-> None, result |-> result]
    ELSE
      LET data == state.data
          totals == Put(result.totals, "changes", TotalChanges(data, result))
          marked == [result EXCEPT !.totals = totals]
          acc == DiffLoop(DiffStart(marked), 1, data)
          after == [marked EXCEPT !.cases = acc.result_cases]
      IN IF acc.raised
         THEN [kind |-> "raise", changes |-> None, result |-> after]
         ELSE [kind |-> "changes",
               changes |-> Some([last_updated |-> state.last_updated,
                                 totals |-> totals,
                                 cases |-> acc.cases]),
               result |-> after]

\* ------------------------------------------------------------ the formatter
\* covid.LOCALE_MAPPING, the display names of the metrics.
LOCALE_MAPPING ==
    [confirmed |-> "Smittet", dead |-> "Dode", recovered |-> "Friskmeldt"]

\* A rendering of the change without the plus sign.
SignedTextBare(value) ==
    IF value < 0 THEN [sign |-> "-", digits |-> 0 - value]
    ELSE [sign |-> "", digits |-> value]

\* str("+" + str(value) if value > 0 else value), live.py:160.
SignedText(value) ==
    IF value > 0 THEN [sign |-> "+", digits |-> value]
    ELSE IF value < 0 THEN [sign |-> "-", digits |-> 0 - value]
    ELSE [sign |-> "", digits |-> 0]

\* One metric line, live.py:153-170 ("up" is the up arrow, "down" the down
\* arrow).
NumberLine(data, key) ==
    LET value == data.changes[key]
    IN [label |-> LOCALE_MAPPING[key],
        value |-> data[key],
        arrow |-> IF value > 0 THEN "up" ELSE IF value < 0 THEN "down" ELSE "",
        change |-> SignedText(value)]

\* A formatter that leaves out the metrics whose delta is zero.
format_number_text_nonzero(data) ==
    LET keys == SelectSeq(Metrics, LAMBDA k : /\ HasKey(data.changes, k)
                                              /\ data.changes[k] # 0)
    IN [i \in 1..Len(keys) |-> NumberLine(data, keys[i])]

\* format_number_text, live.py:147-172: a line per key of data["changes"]
\* in insertion order, the keys confirmedPer1kCapita and is_new skipped.
format_number_text(data) ==
    LET keys == SelectSeq(Metrics, LAMBDA k : HasKey(data.changes, k))
    IN [i \in 1..Len(keys) |-> NumberLine(data, keys[i])]

\* generate_text_block, live.py:140-144.
generate_text_block(text) ==
    <<[type |-> "divider"], [type |-> "section", text |-> text]>>

\* INITIAL_SLACK_MESSAGE, live.py:18-33: the envelope and the title block.
TitleBlock ==
    [type |-> "context",
     text |-> [title |-> ":biohazard_sign: *COVID-19 OPPDATERING* :biohazard_sign:"]]
Envelope ==
    [username |-> "COVID-19", icon_emoji |-> ":biohazard_sign:",
     channel |-> "#covid-19"]
Message(blks) ==
    [username |-> Envelope.username, icon_emoji |-> Envelope.icon_emoji,
     channel |-> Envelope.channel, blocks |-> blks]

\* live.py:178-181.
HeaderBlock(changes) ==
    [type |-> "context",
     text |-> [title |-> "Tidligere status oppdatering: ",
               time |-> changes.last_updated]]

\* live.py:183-185.
TotalsBlocks(changes) ==
    generate_text_block([title |-> "*:flag-no: Landsbasis :flag-no:*",
                         lines |-> format_number_text(changes.totals)])

\* live.py:189-190: " (" + municipality["parent"] + ")" is a TypeError
\* when the parent is None.
ParentRaises(municipality) ==
    HasKey(municipality, "parent") /\ municipality.parent = None

\* live.py:188-197.
MunicipalityBlocks(municipality) ==
    generate_text_block(
        [title |-> municipality.name,
         parent |-> IF HasKey(municipality, "parent")
                    THEN municipality.parent ELSE None,
         is_new |-> municipality.changes.is_new,
         lines |-> format_number_text(municipality)])

\* The loop of live.py:187-197 from entity i on: the shared block list as
\* the loop leaves it, and whether it raised.
RECURSIVE FormatCases(_, _, _)
FormatCases(cases, i, blks) ==
    IF i > Len(cases) THEN [raised |-> FALSE, blocks |-> blks]
    ELSE IF ParentRaises(cases[i]) THEN [raised |-> TRUE, blocks |-> blks]
    ELSE FormatCases(cases, i + 1, blks \o MunicipalityBlocks(cases[i]))

\* format_slack_message, live.py:175-198.  INITIAL_SLACK_MESSAGE.copy() is
\* a shallow copy: slack_message["blocks"] is the list object of
\* INITIAL_SLACK_MESSAGE["blocks"], so every append and extend lands in
\* the module-level list blks.
format_slack_message(changes, blks) ==
    FormatCases(changes.cases, 1,
                Append(blks, HeaderBlock(changes)) \o TotalsBlocks(changes))

\* ------------------------------------------------------------ the sender
\* A split that keeps the full chunks and loses the remainder.
RECURSIVE ChunksOfFullSizeOnly(_)
ChunksOfFullSizeOnly(blks) ==
    IF Len(blks) < BLOCK_LIMIT THEN <<>>
    ELSE <<SubSeq(blks, 1, BLOCK_LIMIT)>>
         \o ChunksOfFullSizeOnly(SubSeq(blks, BLOCK_LIMIT + 1, Len(blks)))

\* [blocks[x : x + 50] for x in range(0, len(blocks), 50)], live.py:207.
RECURSIVE Chunks(_)
Chunks(blks) ==
    IF Len(blks) = 0 THEN <<>>
    ELSE IF Len(blks) <= BLOCK_LIMIT THEN <<blks>>
    ELSE <<SubSeq(blks, 1, BLOCK_LIMIT)>>
         \o Chunks(SubSeq(blks, BLOCK_LIMIT + 1, Len(blks)))

\* ------------------------------------------------------------ the state
VARIABLES
    pc,             \* where the module-level code stands
    state_file,     \* STATE_FILE on disk
    data,           \* the loop's data: the snapshot fetched in this cycle
    changes,        \* the loop's changes: None or the change set
    blocks,         \* the list object INITIAL_SLACK_MESSAGE["blocks"]
    slack_message,  \* the dict send_slack_message works on
    blocks_list,    \* send_slack_message's chunks (empty when not splitting)
    chunk_i,        \* the chunk the for loop of live.py:208 stands at
    exc,            \* the exception in flight ("" when none)
    cycle,          \* the number of the cycle, which is also the clock
    sink,           \* history: the http.request calls, in order
    block_cycle,    \* history: the cycle that appended each element of blocks
    fetched,        \* history: what get_current_data returned in this cycle
    before,         \* history: state_file as the cycle found it
    last_totals,    \* history: the totals of the last fetch before this cycle
    fresh,          \* history: the start-up created the empty state
    failed,         \* history: the cycles the except clause ended, and why
    formatted       \* history: the calls of format_slack_message that
                    \* returned, each with its argument and its blocks

vars == <<pc, state_file, data, changes, blocks, slack_message, blocks_list,
          chunk_i, exc, cycle, sink, block_cycle, fetched, before,
          last_totals, fresh, failed, formatted>>
sendVars == <<slack_message, blocks_list, chunk_i>>
histVars == <<fetched, before, last_totals, fresh, failed, formatted>>

\* ------------------------------------------------------------ the inputs
Entity(name, code, c, d, r, k) ==
    [name |-> name, municipalityCode |-> code, confirmed |-> c, dead |-> d,
     recovered |-> r, confirmedPer1kCapita |-> k]
Snapshot(totals, cases) == [totals |-> totals, cases |-> cases]

\* What get_current_data returns in the poll loop: a few snapshots of the
\* dataset.  SnapC opens with a municipality SnapA and SnapB do not have;
\* SnapD carries a municipality whose parent is null; SnapE reports so many
\* municipalities that the message about them exceeds the block limit.
SnapA == Snapshot(Totals(100, 2, 50), <<Entity("Oslo", "0301", 10, 0, 5, 1)>>)
SnapB ==
    Snapshot(Totals(105, 2, 52),
             <<Entity("Oslo", "0301", 13, 0, 6, 2),
               Entity(UNKNOWN, "9999", 2, 0, 1, 0)>>)
SnapC == Snapshot(Totals(105, 3, 52), <<Entity("Bergen", "4601", 1, 1, 0, 1)>>)
SnapD ==
    Snapshot(Totals(106, 2, 52),
             <<Entity("Oslo", "0301", 14, 0, 6, 3),
               Put(Entity("Baerum", "3024", 1, 0, 0, 1), "parent", None)>>)
SnapE ==
    Snapshot(Totals(130, 2, 52),
             <<Entity("Oslo", "0301", 15, 0, 6, 3)>>
             \o [i \in 1..ManyMunicipalities |->
                   Entity(ToString(5000 + i), ToString(5000 + i), 1, 0, 0, 1)])
FetchSet == {SnapA, SnapB, SnapC, SnapD, SnapE}

\* The outcomes of one http.request: the sink's status, or an exception of
\* the transport (no request reached the sink).
SinkOutcomes == {"ok", "error", "raise"}
\* The outcomes of set_state's write: done, open() failed (file untouched),
\* or pickle.dump failed after open() truncated the file.
WriteOutcomes == {"ok", "open_failed", "dump_failed"}

\* ------------------------------------------------------------ the actions
\* The except clause, live.py:261-264: `except Exception` catches every
\* exception a cycle raises, and the code after it is the sleep of line 267.
\* A narrower clause, which catches the failures of the collaborators
\* only.
AfterExceptionOfIOOnly(e) ==
    IF e \in {"FetchFailure", "TransportError", "OSError"}
    THEN "sleep" ELSE "terminated"

AfterException(e) == "sleep"

Raise(e) ==
    /\ pc' = "except"
    /\ exc' = e

\* A start-up that writes the empty state whether or not there is a state
\* file.
StartupOverwriting ==
    /\ pc = "start"
    /\ \E w \in WriteOutcomes :
         /\ state_file' = CASE w = "ok" -> set_state(EmptyDict, cycle)
                             [] w = "open_failed" -> state_file
                             [] w = "dump_failed" -> Truncated
         /\ pc' = IF w = "ok" THEN "fetch" ELSE "terminated"
         /\ fresh' = (w = "ok")
    /\ before' = state_file'
    /\ UNCHANGED <<data, changes, blocks, sendVars, exc, cycle, sink,
                   block_cycle, fetched, last_totals, failed, formatted>>

\* live.py:229-231: create the empty state when there is no state file.
\* This runs outside the try: a failing write ends the process.
Startup ==
    /\ pc = "start"
    /\ IF state_file = NoFile
       THEN \E w \in WriteOutcomes :
              /\ state_file' = CASE w = "ok" -> set_state(EmptyDict, cycle)
                                  [] w = "open_failed" -> state_file
                                  [] w = "dump_failed" -> Truncated
              /\ pc' = IF w = "ok" THEN "fetch" ELSE "terminated"
              /\ fresh' = (w = "ok")
       ELSE /\ pc' = "fetch"
            /\ UNCHANGED <<state_file, fresh>>
    /\ before' = state_file'
    /\ UNCHANGED <<data, changes, blocks, sendVars, exc, cycle, sink,
                   block_cycle, fetched, last_totals, failed, formatted>>

\* live.py:238: data = get_current_data().
Fetch ==
    /\ pc = "fetch"
    /\ \/ \E s \in FetchSet :
            /\ data' = s
            /\ fetched' = Some(s)
            /\ pc' = "diff"
            /\ UNCHANGED exc
       \/ /\ Raise("FetchFailure")
          /\ UNCHANGED <<data, fetched>>
    /\ UNCHANGED <<state_file, changes, blocks, sendVars, cycle, sink,
                   block_cycle, before, last_totals, fresh, failed,
                   formatted>>

\* live.py:239-250: changes = get_state_changes(data); when it is None the
\* loop sleeps and continues, without reaching set_state.
Diff ==
    /\ pc = "diff"
    /\ IF ~CanLoad(state_file)
       THEN /\ Raise("StorageUnavailable")
            /\ UNCHANGED <<data, changes>>
       ELSE \E r \in {get_state_changes(get_state(state_file), data)} :
               /\ data' = r.result
               /\ changes' = r.changes
               /\ IF r.kind = "raise"
                  THEN Raise("UnboundLocalError")
                  ELSE /\ pc' = IF r.kind = "none" THEN "sleep_nochange"
                                ELSE "format"
                       /\ UNCHANGED exc
    /\ UNCHANGED <<state_file, blocks, sendVars, cycle, sink, block_cycle,
                   histVars>>

\* live.py:258: slack_message = format_slack_message(changes).
Format ==
    /\ pc = "format"
    /\ \E r \in {format_slack_message(changes[1], blocks)} :
          /\ blocks' = r.blocks
          /\ block_cycle' =
               block_cycle
               \o [i \in 1..(Len(r.blocks) - Len(blocks)) |-> cycle]
          /\ IF r.raised
             THEN /\ Raise("TypeError")
                  /\ UNCHANGED <<slack_message, formatted>>
             ELSE /\ slack_message' = Message(r.blocks)
                  /\ formatted' =
                       formatted \cup {[changes |-> changes[1],
                                        blocks |-> r.blocks]}
                  /\ pc' = "send"
                  /\ UNCHANGED exc
    /\ UNCHANGED <<state_file, data, changes, blocks_list, chunk_i, cycle,
                   sink, fetched, before, last_totals, fresh, failed>>

\* send_slack_message, live.py:202-207: a message of more than 50 blocks
\* is cut into chunks; any other goes to the request.
SendEnter ==
    /\ pc = "send"
    /\ IF Len(slack_message.blocks) > BLOCK_LIMIT
       THEN /\ blocks_list' = Chunks(slack_message.blocks)
            /\ chunk_i' = 1
            /\ pc' = "send_chunk"
       ELSE /\ blocks_list' = <<>>
            /\ chunk_i' = 0
            /\ pc' = "request"
    /\ UNCHANGED <<state_file, data, changes, blocks, slack_message, exc,
                   cycle, sink, block_cycle, histVars>>

\* live.py:208-211: the for loop over the chunks; each chunk replaces
\* slack_message["blocks"] and is sent by a recursive call, which goes
\* to the request since a chunk has at most 50 blocks.
SendChunk ==
    /\ pc = "send_chunk"
    /\ IF chunk_i <= Len(blocks_list)
       THEN /\ slack_message' =
                 [slack_message EXCEPT !.blocks = blocks_list[chunk_i]]
            /\ pc' = "request"
            /\ UNCHANGED <<blocks_list, chunk_i>>
       ELSE /\ pc' = "persist"
            /\ blocks_list' = <<>>
            /\ chunk_i' = 0
            /\ UNCHANGED slack_message
    /\ UNCHANGED <<state_file, data, changes, blocks, exc, cycle, sink,
                   block_cycle, histVars>>

\* Where the blocks of the request in flight start in the module-level
\* list.
ChunkOffset == IF chunk_i = 0 THEN 0 ELSE BLOCK_LIMIT * (chunk_i - 1)

\* What a request leaves in the history: the payload, the status the sink
\* answered, or raised when the transport failed and nothing reached the
\* sink.
Delivery(status, raised) ==
    [cycle |-> cycle, status |-> status, raised |-> raised,
     username |-> slack_message.username,
     icon_emoji |-> slack_message.icon_emoji,
     channel |-> slack_message.channel,
     blocks |-> slack_message.blocks,
     origin |-> SubSeq(block_cycle, ChunkOffset + 1,
                       ChunkOffset + Len(slack_message.blocks))]

\* After the request of live.py:213-226 returned: the top-level call
\* returns to the loop (line 260), a recursive one to the for loop.
AfterRequest(status) == IF chunk_i = 0 THEN "persist" ELSE "send_chunk"

\* live.py:213-226: one POST; a status other than 200 is printed and the
\* call returns like a successful one; an exception of http.request
\* leaves send_slack_message, and the for loop of the caller with it.
Request ==
    /\ pc = "request"
    /\ \E o \in SinkOutcomes :
         IF o = "raise"
         THEN /\ Raise("TransportError")
              /\ sink' = Append(sink, Delivery(0, TRUE))
              /\ blocks_list' = <<>>
              /\ chunk_i' = 0
              /\ UNCHANGED slack_message
         ELSE LET status == IF o = "ok" THEN HTTP_OK ELSE HTTP_ERROR
              IN /\ sink' = Append(sink, Delivery(status, FALSE))
                 /\ pc' = AfterRequest(status)
                 /\ chunk_i' = IF chunk_i = 0 THEN 0 ELSE chunk_i + 1
                 /\ UNCHANGED <<exc, slack_message, blocks_list>>
    /\ UNCHANGED <<state_file, data, changes, blocks, cycle, block_cycle,
                   histVars>>

\* live.py:260: set_state(data).
Persist ==
    /\ pc = "persist"
    /\ \E w \in WriteOutcomes :
         /\ state_file' = CASE w = "ok" -> set_state(data, cycle)
                             [] w = "open_failed" -> state_file
                             [] w = "dump_failed" -> Truncated
         /\ IF w = "ok"
            THEN pc' = "sleep" /\ UNCHANGED exc
            ELSE Raise("OSError")
    /\ UNCHANGED <<data, changes, blocks, sendVars, cycle, sink,
                   block_cycle, histVars>>

\* live.py:261-264.
Except ==
    /\ pc = "except"
    /\ pc' = AfterException(exc)
    /\ exc' = ""
    /\ failed' = failed \cup {[cycle |-> cycle, exc |-> exc]}
    /\ UNCHANGED <<state_file, data, changes, blocks, sendVars, cycle, sink,
                   block_cycle, fetched, before, last_totals, fresh,
                   formatted>>

\* live.py:249-250 and 266-267: time.sleep, then the next iteration.
Sleep ==
    /\ pc \in {"sleep", "sleep_nochange"}
    /\ cycle < MaxCycles
    /\ pc' = "fetch"
    /\ cycle' = cycle + 1
    /\ fetched' = None
    /\ before' = state_file
    /\ last_totals' = IF fetched = None THEN last_totals
                      ELSE Some(fetched[1].totals)
    /\ UNCHANGED <<state_file, data, changes, blocks, sendVars, exc, sink,
                   block_cycle, fresh, failed, formatted>>

\* ------------------------------------------------------------ the loop
\* The process starts with no state file, or with one an earlier run left.
StoredAtStart ==
    {NoFile, Pickled(0, EmptyDict)} \cup {Pickled(0, s) : s \in FetchSet}

Init ==
    /\ pc = "start"
    /\ state_file \in StoredAtStart
    /\ data = EmptyDict
    /\ changes = None
    /\ blocks = <<TitleBlock>>
    /\ slack_message = Message(<<>>)
    /\ blocks_list = <<>>
    /\ chunk_i = 0
    /\ exc = ""
    /\ cycle = 1
    /\ sink = <<>>
    /\ block_cycle = <<0>>
    /\ fetched = None
    /\ before = state_file
    /\ last_totals = None
    /\ fresh = FALSE
    /\ failed = {}
    /\ formatted = {}

Next ==
    \/ Startup
    \/ Fetch
    \/ Diff
    \/ Format
    \/ SendEnter
    \/ SendChunk
    \/ Request
    \/ Persist
    \/ Except
    \/ Sleep

Spec == Init /\ [][Next]_vars

\* The loop is sequential code: a step that can be taken is taken.
FairSpec == Spec /\ WF_vars(Next)

\* ------------------------------------------------- the loop, restarted
\* The process is started again, after it ended or while it slept: the
\* module-level code runs from its first line with the state file as the
\* run before left it, and nothing else is kept; the histories are those
\* of a run.
Restart ==
    /\ pc \in {"sleep", "sleep_nochange", "terminated"}
    /\ cycle < MaxCycles
    /\ pc' = "start"
    /\ cycle' = cycle + 1
    /\ data' = EmptyDict
    /\ changes' = None
    /\ blocks' = <<TitleBlock>>
    /\ block_cycle' = <<0>>
    /\ slack_message' = Message(<<>>)
    /\ blocks_list' = <<>>
    /\ chunk_i' = 0
    /\ exc' = ""
    /\ fetched' = None
    /\ before' = state_file
    /\ last_totals' = None
    /\ formatted' = {}
    /\ sink' = <<>>
    /\ fresh' = FALSE
    /\ failed' = {}
    /\ UNCHANGED state_file

NextRestart ==
    \/ Next
    \/ Restart

SpecRestart == Init /\ [][NextRestart]_vars

\* ------------------------------------------------- get_state_changes alone
\* The inputs of the diff: the counts of a municipality are all equal, or
\* all zero but one.
CountVectors ==
    {v \in [1..4 -> 0..MaxCount] :
        \/ \A i, j \in 1..4 : v[i] = v[j]
        \/ Cardinality({i \in 1..4 : v[i] # 0}) <= 1}
WithCounts(identity, v) ==
    [k \in DOMAIN identity
           \cup {"confirmed", "dead", "recovered", "confirmedPer1kCapita"} |->
        CASE k = "confirmed" -> v[1]
          [] k = "dead" -> v[2]
          [] k = "recovered" -> v[3]
          [] k = "confirmedPer1kCapita" -> v[4]
          [] OTHER -> identity[k]]
\* The unknown bucket without a code and with the code of Oslo, and two
\* municipalities.
Identities ==
    {[name |-> UNKNOWN],
     [name |-> UNKNOWN, municipalityCode |-> "0301"],
     [name |-> "Oslo", municipalityCode |-> "0301"],
     [name |-> "Bergen", municipalityCode |-> "4601"]}
DiffEntities == {WithCounts(id, v) : id \in Identities, v \in CountVectors}
\* Stored entities: the four counts at one level.
StoredEntities ==
    {WithCounts(id, v) :
        id \in Identities,
        v \in {w \in CountVectors : \A i, j \in 1..4 : w[i] = w[j]}}
\* Entity lists of length n: an identity occurs once in a snapshot.
CasesOf(entities, n) ==
    {l \in [1..n -> entities] :
        \A i, j \in 1..n : i # j => l[i].name # l[j].name}
DiffCases == UNION {CasesOf(DiffEntities, n) : n \in 0..MaxEntities}
DiffTotals ==
    {Totals(c, d, r) : c \in {100, 105}, d \in {2, 3}, r \in {50, 52}}
\* The loop at line 239, after a fetch over a stored state: every pair of
\* totals over no entities and over one new entity; under totals that
\* changed, every stored list against every fetched list with
\* MaxEntities + 1 entities between them at most; every pair of single
\* entities under totals that rose, fell, did both or did not change; a
\* snapshot against itself; the empty state; and a state file that cannot
\* be read.
InitDiff ==
    /\ pc = "diff"
    /\ \/ \E t1 \in DiffTotals, t2 \in DiffTotals,
               l \in {<<>>, SnapA.cases} :
            /\ state_file = Pickled(0, Snapshot(t1, <<>>))
            /\ data = Snapshot(t2, l)
       \/ \E n1 \in 0..MaxEntities, n2 \in 0..MaxEntities :
            /\ n1 + n2 <= MaxEntities + 1
            /\ \E l1 \in CasesOf(StoredEntities, n1),
                  l2 \in CasesOf(DiffEntities, n2) :
                 /\ state_file = Pickled(0, Snapshot(Totals(100, 2, 50), l1))
                 /\ data = Snapshot(Totals(105, 2, 52), l2)
       \/ \E l1 \in CasesOf(DiffEntities, 1), l2 \in CasesOf(DiffEntities, 1),
               t1 \in {Totals(100, 2, 50), Totals(100, 3, 50)},
               t2 \in {Totals(100, 2, 50), Totals(105, 2, 52)} :
            /\ state_file = Pickled(0, Snapshot(t1, l1))
            /\ data = Snapshot(t2, l2)
       \/ \E l \in DiffCases :
            /\ state_file = Pickled(0, Snapshot(Totals(100, 2, 50), l))
            /\ data = Snapshot(Totals(100, 2, 50), l)
       \/ \E t \in DiffTotals, l \in DiffCases :
            /\ Len(l) <= 1
            /\ state_file = Pickled(0, EmptyDict)
            /\ data = Snapshot(t, l)
       \/ /\ state_file \in {Truncated, NoFile}
          /\ data = SnapA
    /\ changes = None
    /\ blocks = <<TitleBlock>>
    /\ slack_message = Message(<<>>)
    /\ blocks_list = <<>>
    /\ chunk_i = 0
    /\ exc = ""
    /\ cycle = 1
    /\ sink = <<>>
    /\ block_cycle = <<0>>
    /\ fetched = Some(data)
    /\ before = state_file
    /\ last_totals = None
    /\ fresh = FALSE
    /\ failed = {}
    /\ formatted = {}

SpecDiff == InitDiff /\ [][Diff]_vars

\* ---------------------------------- format_slack_message over the diffs
\* Lines 239 and 258: the change sets get_state_changes returns over the
\* inputs above, each handed to format_slack_message.
NextFormat ==
    \/ Diff
    \/ Format

SpecFormat == InitDiff /\ [][NextFormat]_vars

\* ------------------------------------------------ send_slack_message alone
\* A block list of n blocks, as cycles of formatting leave it.
SomeBlocks(n) ==
    [i \in 1..n |->
        IF i = 1 THEN TitleBlock
        ELSE [type |-> "section", text |-> [title |-> "text", n |-> i]]]

\* The loop at line 259, with a message of any length.
InitSend ==
    /\ pc = "send"
    /\ \E n \in 1..MaxBlocks :
         /\ blocks = SomeBlocks(n)
         /\ block_cycle = [i \in 1..n |-> 0]
    /\ slack_message = Message(blocks)
    /\ state_file = Pickled(0, SnapA)
    /\ data = SnapB
    /\ changes = None
    /\ blocks_list = <<>>
    /\ chunk_i = 0
    /\ exc = ""
    /\ cycle = 1
    /\ sink = <<>>
    /\ fetched = Some(data)
    /\ before = state_file
    /\ last_totals = None
    /\ fresh = FALSE
    /\ failed = {}
    /\ formatted = {}

NextSend ==
    \/ SendEnter
    \/ SendChunk
    \/ Request

SpecSend == InitSend /\ [][NextSend]_vars

\* ------------------------------------------------------------ the claims
Sleeping == pc \in {"sleep", "sleep_nochange"}
InCycle ==
    pc \in {"fetch", "diff", "format", "send", "send_chunk", "request",
            "persist", "except"}
Range(f) == {f[i] : i \in DOMAIN f}

\* A snapshot without what get_state_changes wrote into it.
WithoutChanges(snapshot) ==
    [totals |-> Drop(snapshot.totals, "changes"),
     cases |-> [i \in DOMAIN snapshot.cases |->
                  Drop(snapshot.cases[i], "changes")]]

\* The cycles that failed in fetch, diff, format or send.
FailedBeforePersist == {f.cycle : f \in {g \in failed : g.exc # "OSError"}}
WriteFailed == \E f \in failed : f.cycle = cycle /\ f.exc = "OSError"

\* The requests of cycle c that reached the sink.
Received(c) == SelectSeq(sink, LAMBDA r : r.cycle = c /\ ~r.raised)

\* C1: in every cycle whose fetch succeeded, the state file holds the
\* fetched snapshot, written in this cycle, when the loop sleeps (whether
\* get_state_changes returned None, a notification was sent, or the diff,
\* the formatting or the delivery failed).
C1_StoreFollowsFetch ==
    (Sleeping /\ fetched # None /\ ~WriteFailed) =>
        /\ state_file.file = "ok"
        /\ state_file.last_updated = cycle
        /\ ~Falsy(state_file.data)
        /\ WithoutChanges(state_file.data) = fetched[1]

\* C2: from a freshly created empty state, with no failure anywhere, a
\* cycle that fetched totals unlike those of the fetch before it has
\* delivered a notification to the sink when it sleeps.
C2_ChangeIsNotified ==
    (/\ Sleeping
     /\ fresh
     /\ failed = {}
     /\ \A i \in 1..Len(sink) : ~sink[i].raised /\ sink[i].status = HTTP_OK
     /\ last_totals # None
     /\ fetched # None
     /\ ~SameTotals([totals |-> last_totals[1]], fetched[1]))
    => Len(Received(cycle)) > 0

\* C3: no exception of a cycle ends the loop: from every point of a cycle
\* the loop reaches the sleep, and from the sleep the next cycle.
C3_LoopSurvives ==
    /\ [][InCycle => pc' # "terminated"]_vars
    /\ InCycle ~> Sleeping
    /\ (Sleeping /\ cycle < MaxCycles) ~> (pc = "fetch")

\* A cycle failed in the storage, the diff or the formatter, and the loop
\* went on to the next cycle.
C3_Witness ==
    /\ pc = "fetch"
    /\ \E f \in failed :
         /\ f.cycle < cycle
         /\ f.exc \in {"StorageUnavailable", "UnboundLocalError", "TypeError"}

\* C4: the sink receives nothing from a cycle that failed in fetch, diff,
\* format or send, and no block such a cycle produced, in any cycle.
C4_FailedCycleIsSilent ==
    \A i \in 1..Len(sink) :
        ~sink[i].raised =>
            /\ sink[i].cycle \notin FailedBeforePersist
            /\ Range(sink[i].origin) \cap FailedBeforePersist = {}

\* What the diff compared: the stored snapshot and the fetched one.
Prev == before.data
Cur == fetched[1]
DiffOver ==
    \/ pc \in {"sleep_nochange", "format"}
    \/ (pc = "except" /\ exc = "UnboundLocalError")
TotalsEqual ==
    \A k \in {"confirmed", "dead", "recovered"} :
        Prev.totals[k] = Cur.totals[k]

\* C5: get_state_changes returns None exactly when the stored snapshot is
\* empty or the totals are equal on all three metrics, and a change set
\* in every other case.
C5_NoneOrChangeSet ==
    DiffOver =>
        IF Falsy(Prev) \/ TotalsEqual
        THEN pc = "sleep_nochange" /\ changes = None
        ELSE pc = "format" /\ changes # None

\* The previous entities that are the counterpart of entity m by the
\* identity rule: the unknown bucket by name, any other by code among
\* the entities that are not the unknown bucket.
Counterparts(m, cases) ==
    {i \in 1..Len(cases) :
        IF m.name = UNKNOWN
        THEN cases[i].name = UNKNOWN
        ELSE cases[i].name # UNKNOWN
             /\ cases[i].municipalityCode = m.municipalityCode}

\* C6: whenever a change set is due, the diff completes and reports every
\* current entity that has no counterpart, wherever it stands in the
\* list, as new with its raw counts as deltas.
C6_NewEntityReported ==
    (DiffOver /\ ~Falsy(Prev) /\ ~TotalsEqual) =>
        \A i \in 1..Len(Cur.cases) :
            Counterparts(Cur.cases[i], Prev.cases) = {} =>
                /\ pc = "format"
                /\ \E j \in 1..Len(changes[1].cases) :
                     LET e == changes[1].cases[j]
                     IN /\ e.name = Cur.cases[i].name
                        /\ e.changes.is_new
                        /\ e.changes.confirmed = Cur.cases[i].confirmed
                        /\ e.changes.dead = Cur.cases[i].dead
                        /\ e.changes.recovered = Cur.cases[i].recovered

C8_UnknownBucketMatching ==
    pc = "format" =>
        \A j \in 1..Len(changes[1].cases) :
            LET e == changes[1].cases[j]
                found == Counterparts(e, Prev.cases)
                p == Prev.cases[CHOOSE i \in found : \A k \in found : i <= k]
            IN IF found = {}
               THEN e.changes.is_new
               ELSE /\ ~e.changes.is_new
                    /\ e.changes.confirmed = e.confirmed - p.confirmed
                    /\ e.changes.dead = e.dead - p.dead
                    /\ e.changes.recovered = e.recovered - p.recovered
                    /\ e.changes.confirmedPer1kCapita =
                         e.confirmedPer1kCapita - p.confirmedPer1kCapita

\* The unknown bucket, without a code now and with the code of Oslo
\* before, is matched; Oslo, whose code only the previous unknown bucket
\* has, is new.
C8_Witness ==
    /\ pc = "format"
    /\ \E i \in 1..Len(Prev.cases) :
         /\ Prev.cases[i].name = UNKNOWN
         /\ HasKey(Prev.cases[i], "municipalityCode")
         /\ \E j, k \in 1..Len(changes[1].cases) :
              /\ changes[1].cases[j].name = UNKNOWN
              /\ ~HasKey(changes[1].cases[j], "municipalityCode")
              /\ ~changes[1].cases[j].changes.is_new
              /\ changes[1].cases[k].name # UNKNOWN
              /\ changes[1].cases[k].municipalityCode
                    = Prev.cases[i].municipalityCode
              /\ changes[1].cases[k].changes.is_new

\* The requests send_slack_message made in this cycle, and their blocks
\* one after the other.
Attempts == SelectSeq(sink, LAMBDA r : r.cycle = cycle)
RECURSIVE BlocksOf(_)
BlocksOf(requests) ==
    IF requests = <<>> THEN <<>>
    ELSE requests[1].blocks \o BlocksOf(Tail(requests))

\* C9: when send_slack_message returns, a message of n blocks has gone
\* to the sink in one request if n <= 50 and in ceil(n/50) requests
\* otherwise, each of at most 50 blocks and with the envelope of the
\* message, the blocks in order; 120 blocks go as 50, 50 and 20.
C9_Chunking ==
    pc = "persist" =>
        LET n == Len(blocks)
            calls == Received(cycle)
        IN /\ Len(calls) = IF n <= 50 THEN 1 ELSE (n + 49) \div 50
           /\ \A i \in 1..Len(calls) :
                /\ Len(calls[i].blocks) <= 50
                /\ calls[i].username = Envelope.username
                /\ calls[i].icon_emoji = Envelope.icon_emoji
                /\ calls[i].channel = Envelope.channel
           /\ BlocksOf(calls) = blocks
           /\ n = 120 =>
                [i \in 1..Len(calls) |-> Len(calls[i].blocks)] = <<50, 50, 20>>

\* 120 blocks were sent in three requests, one of which the sink refused.
C9_Witness ==
    /\ pc = "persist"
    /\ Len(blocks) = 120
    /\ Len(Received(cycle)) = 3
    /\ \E i \in 1..Len(sink) : sink[i].status = HTTP_ERROR

\* C10: when send_slack_message is over, every chunk of the message has
\* been attempted once, in order, whatever became of the chunks before it.
C10_EveryChunkAttempted ==
    (pc = "persist" \/ (pc = "except" /\ exc = "TransportError")) =>
        BlocksOf(Attempts) = blocks

\* C11: send_slack_message returns normally to the loop only when the
\* sink answered every request of the cycle with its success status 200;
\* a request the sink refused makes the call fail, so that the loop does
\* not go on to persist.
C11_DeliveryErrorReported ==
    pc = "persist" =>
        \A i \in 1..Len(sink) :
            (sink[i].cycle = cycle /\ ~sink[i].raised) =>
                sink[i].status = HTTP_OK

\* C12: format_slack_message is a function of the change set alone: two
\* calls of one process with the same change set, in any two cycles,
\* return the same blocks.
C12_FormatterDeterministic ==
    \A a, b \in formatted :
        a.changes = b.changes => a.blocks = b.blocks

\* The section blocks of the message format_slack_message returned: the
\* aggregate first, then one per entity of the change set; and what each
\* was rendered from.
Sections == SelectSeq(slack_message.blocks, LAMBDA b : b.type = "section")
CycleSections ==
    SubSeq(Sections, Len(Sections) - Len(changes[1].cases), Len(Sections))
Rendered(s) == IF s = 1 THEN changes[1].totals ELSE changes[1].cases[s - 1]
LinesOf(s, k) ==
    {i \in 1..Len(CycleSections[s].text.lines) :
        CycleSections[s].text.lines[i].label = LOCALE_MAPPING[k]}

C14_SaveIsAtomic ==
    /\ state_file # Truncated
    /\ ~(pc = "except" /\ exc = "StorageUnavailable")

\* C15: a set_state(data) that completes leaves a state file from which
\* get_state returns data, stamped with the time of the write; nothing but
\* set_state changes the state file, a restart of the process included;
\* the start-up writes the empty state when there is no state file and
\* leaves an existing state file as it is, each time it runs.
C15_Durability ==
    /\ [][(pc = "persist" /\ pc' = "sleep") =>
            /\ CanLoad(state_file')
            /\ get_state(state_file') =
                 [last_updated |-> cycle, data |-> data]]_vars
    /\ [][state_file' # state_file => pc \in {"start", "persist"}]_vars
    /\ [][pc = "start" =>
            IF state_file = NoFile
            THEN pc' = "fetch" =>
                   /\ CanLoad(state_file')
                   /\ get_state(state_file') =
                        [last_updated |-> cycle, data |-> EmptyDict]
            ELSE state_file' = state_file]_vars

\* A snapshot was saved in the cycle before, the process was started
\* again (the block list is the template's, which it is not in a process
\* that formatted the message the save followed), the start-up ran, and
\* the state file holds the snapshot.
C15_Witness ==
    /\ pc = "fetch"
    /\ cycle > 1
    /\ blocks = <<TitleBlock>>
    /\ sink = <<>>
    /\ CanLoad(state_file)
    /\ state_file.last_updated = cycle - 1
    /\ ~Falsy(get_state(state_file).data)
    /\ WithoutChanges(get_state(state_file).data) \in FetchSet

\* C16: get_state_changes leaves the fetched snapshot and the state file
\* as they were, so the snapshot the loop persists is the fetched one,
\* and no state file holds a deltas record or an is_new flag.
C16_DiffIsPure ==
    /\ fetched # None => data = fetched[1]
    /\ pc \in {"format", "sleep_nochange"} => state_file = before
    /\ (pc = "sleep" /\ fetched # None /\ CanLoad(state_file)
        /\ state_file.last_updated = cycle /\ ~Falsy(state_file.data)) =>
            get_state(state_file).data = fetched[1]
    /\ (CanLoad(state_file) /\ ~Falsy(state_file.data)) =>
            WithoutChanges(state_file.data) = state_file.data

\* C17: in every cycle the message format_slack_message returns for a
\* change set of n entities has 2 + 2 * (1 + n) blocks: the title block
\* once, one header block, and the blocks this cycle made; the block list
\* of INITIAL_SLACK_MESSAGE is the title block alone once the message is
\* sent; and no request carries a block of an earlier cycle.
C17_OnlyCurrentBlocks ==
    /\ pc = "send" =>
         LET b == slack_message.blocks
         IN /\ Len(b) = 2 + 2 * (1 + Len(changes[1].cases))
            /\ Cardinality({i \in 1..Len(b) : b[i] = TitleBlock}) = 1
            /\ Cardinality({i \in 1..Len(b) :
                              b[i].type = "context" /\ b[i] # TitleBlock}) = 1
            /\ \A i \in 2..Len(b) : block_cycle[i] = cycle
    /\ (pc = "persist" \/ Sleeping) => blocks = <<TitleBlock>>
    /\ \A i \in 1..Len(sink) :
          Range(sink[i].origin) \subseteq {0, sink[i].cycle}

\* The counterpart the loop compares entity m with, and the four deltas.
Counterpart(m) ==
    Prev.cases[CHOOSE i \in Counterparts(m, Prev.cases) :
                  \A k \in Counterparts(m, Prev.cases) : i <= k]
DeltasOf(m) ==
    [k \in {"confirmed", "dead", "recovered", "confirmedPer1kCapita"} |->
        m[k] - Counterpart(m)[k]]
\* The entries of the change set that are entity m with a deltas record.
EntriesOf(m) ==
    {j \in 1..Len(changes[1].cases) :
        Drop(changes[1].cases[j], "changes") = m}

\* C18: a current entity that has a counterpart is in the change set
\* exactly when one of its four deltas, current minus counterpart, is
\* not zero; its entry is not new and carries these four differences.
C18_MatchedEntityReported ==
    pc = "format" =>
        \A i \in 1..Len(Cur.cases) :
            LET m == Cur.cases[i]
            IN Counterparts(m, Prev.cases) # {} =>
                 /\ EntriesOf(m) # {} <=>
                      \E k \in DOMAIN DeltasOf(m) : DeltasOf(m)[k] # 0
                 /\ \A j \in EntriesOf(m) :
                      changes[1].cases[j].changes =
                        [is_new |-> FALSE,
                         confirmedPer1kCapita |->
                            DeltasOf(m).confirmedPer1kCapita,
                         confirmed |-> DeltasOf(m).confirmed,
                         dead |-> DeltasOf(m).dead,
                         recovered |-> DeltasOf(m).recovered]

\* An entity whose counts are those of its counterpart and whose
\* per-capita figure is not is reported.
C18_Witness ==
    /\ pc = "format"
    /\ \E i \in 1..Len(Cur.cases) :
         LET m == Cur.cases[i]
         IN /\ Counterparts(m, Prev.cases) # {}
            /\ DeltasOf(m).confirmed = 0
            /\ DeltasOf(m).dead = 0
            /\ DeltasOf(m).recovered = 0
            /\ DeltasOf(m).confirmedPer1kCapita # 0
            /\ EntriesOf(m) # {}

\* The place in the current snapshot of the j-th entry of the change set.
PlaceOf(j) ==
    CHOOSE i \in 1..Len(Cur.cases) :
        Drop(changes[1].cases[j], "changes") = Cur.cases[i]
\* The previous entities no current entity has as its counterpart.
Disappeared ==
    {q \in 1..Len(Prev.cases) :
        \A i \in 1..Len(Cur.cases) :
            q \notin Counterparts(Cur.cases[i], Prev.cases)}

\* C19: every entry of the change set is an entity of the current
\* snapshot, the entries stand in the order of the current snapshot, no
\* entity has two entries, and a previous entity without a current
\* counterpart has none.
C19_OrderPreserved ==
    pc = "format" =>
        LET entries == changes[1].cases
        IN /\ \A j \in 1..Len(entries) :
                \E i \in 1..Len(Cur.cases) :
                    Drop(entries[j], "changes") = Cur.cases[i]
           /\ \A j, k \in 1..Len(entries) :
                j < k => PlaceOf(j) < PlaceOf(k)
           /\ \A j \in 1..Len(entries) :
                /\ Counterparts(entries[j], Prev.cases) \cap Disappeared = {}
                /\ \A q \in Disappeared :
                     Drop(entries[j], "changes") # Prev.cases[q]

\* Two entities are reported, in the order of the current snapshot.
C19_Witness ==
    /\ pc = "format"
    /\ Len(changes[1].cases) = 2
    /\ PlaceOf(1) = 1
    /\ PlaceOf(2) = 2

\* C20: in the aggregate block and in every entity block, each of
\* confirmed, dead and recovered whose delta is not 0 has one line, with
\* the current value of the metric, the up arrow and "+" before the delta
\* exactly when the delta is positive, the down arrow and the negative
\* number exactly when it is negative; no line is made for the
\* per-capita delta or the is_new flag.
C20_SignAndArrow ==
    pc = "send" =>
        \A s \in 1..Len(CycleSections) :
            LET lines == CycleSections[s].text.lines
                labels == {LOCALE_MAPPING[k] :
                              k \in {"confirmed", "dead", "recovered"}}
            IN /\ \A i \in 1..Len(lines) : lines[i].label \in labels
               /\ \A k \in {"confirmed", "dead", "recovered"} :
                    LET delta == Rendered(s).changes[k]
                    IN /\ Cardinality(LinesOf(s, k)) <= 1
                       /\ delta # 0 => LinesOf(s, k) # {}
                       /\ \A i \in LinesOf(s, k) :
                            /\ lines[i].value = Rendered(s)[k]
                            /\ lines[i].arrow = "up" <=> delta > 0
                            /\ lines[i].arrow = "down" <=> delta < 0
                            /\ delta > 0 =>
                                 lines[i].change =
                                   [sign |-> "+", digits |-> delta]
                            /\ delta < 0 =>
                                 lines[i].change =
                                   [sign |-> "-", digits |-> 0 - delta]
                            /\ lines[i].change.sign = "+" <=> delta > 0
                            /\ lines[i].change.sign = "-" <=> delta < 0

\* A total went up and another went down, and an entity of the change
\* set has a count that went down: each has its line.
C20_Witness ==
    /\ pc = "send"
    /\ Len(CycleSections) >= 2
    /\ \E i, j \in 1..Len(CycleSections[1].text.lines) :
         /\ CycleSections[1].text.lines[i].arrow = "up"
         /\ CycleSections[1].text.lines[j].arrow = "down"
    /\ \E i \in 1..Len(CycleSections[2].text.lines) :
         CycleSections[2].text.lines[i].arrow = "down"

====
